---------------------------- MODULE Spec2Model ----------------------------
(***************************************************************************)
(* Model of OSMnxMunicipioSegments (src/osmnx_municipio_segmentos.py):     *)
(* the code parser _parse_municipality_codes, the output-path              *)
(* normalisation and the per-municipality loop of processAlgorithm.        *)
(*                                                                         *)
(* Python strings are sequences of one-character strings, so that          *)
(* splitting, filtering and case folding are computed, not assumed.        *)
(* Every call into an external collaborator (requests, osmnx, geopandas,   *)
(* QGIS) is a nondeterministic choice over the outcomes the code           *)
(* distinguishes.                                                          *)
(***************************************************************************)
EXTENDS Integers, Sequences, FiniteSets, TLC

VARIABLES
    mun_codes_str,   \* parameter MUNICIPIO_IBGE
    out_path_user,   \* parameter OUTPUT
    net_type_index,  \* parameter NETWORK_TYPE
    buffer_m,        \* parameter BUFFER_METERS
    pc,              \* position of processAlgorithm
    codes,           \* list returned by _parse_municipality_codes
    network_type,    \* NET_TYPE_OPTIONS[net_type_index]
    out_path,        \* normalised output path
    idx,             \* loop index of enumerate(codes, start=1)
    place_query,     \* "<nome>, <uf>, Brasil" of the current code
    geom,            \* polygon handed to graph_from_polygon
    edges_crs,       \* whether the edge table still carries a CRS
    created_layers,  \* list created_layers
    gpkg,            \* layers written to the output package, in write order
    store,           \* context.temporaryLayerStore()
    project,         \* QgsProject.instance()
    reported,        \* feedback.reportError messages (non-fatal)
    raised,          \* the QgsProcessingException / ImportError raised, or None
    result,          \* value returned by processAlgorithm, or None
    outcome,         \* outcome of the latest external call
    log              \* external calls made so far, in order

vars == << mun_codes_str, out_path_user, net_type_index, buffer_m, pc, codes,
           network_type, out_path, idx, place_query, geom, edges_crs,
           created_layers, gpkg, store, project, reported, raised, result,
           outcome, log >>

None == "None"

-----------------------------------------------------------------------------
(* Bounds of the model *)

\* longest enumerated codes string (characters)
MaxLen == 5
\* longest enumerated output path (pieces of PathParts)
MaxParts == 4
\* most codes typed into the codes field of a full run
MaxCodes == 2

-----------------------------------------------------------------------------
(* Strings *)

Digits == {"0", "1", "2", "3", "4", "5", "6", "7", "8", "9"}

\* c.isdigit()
IsDigit(c) == c \in Digits

UpperLetters == << "A", "B", "C", "D", "E", "F", "G", "H", "I", "J", "K", "L", "M",
                   "N", "O", "P", "Q", "R", "S", "T", "U", "V", "W", "X", "Y", "Z" >>
LowerLetters == << "a", "b", "c", "d", "e", "f", "g", "h", "i", "j", "k", "l", "m",
                   "n", "o", "p", "q", "r", "s", "t", "u", "v", "w", "x", "y", "z" >>

LowerChar(c) ==
    IF \E i \in 1..Len(UpperLetters) : UpperLetters[i] = c
    THEN LowerLetters[CHOOSE i \in 1..Len(UpperLetters) : UpperLetters[i] = c]
    ELSE c

\* str.lower()
Lower(s) == [i \in 1..Len(s) |-> LowerChar(s[i])]

\* str.endswith(suffix)
EndsWith(s, suffix) ==
    /\ Len(s) >= Len(suffix)
    /\ SubSeq(s, Len(s) - Len(suffix) + 1, Len(s)) = suffix

Range(s) == {s[i] : i \in 1..Len(s)}

\* s.rfind(c): the last index of c in s, 0 when absent (Python's -1)
RFind(s, c) ==
    IF \E i \in 1..Len(s) : s[i] = c
    THEN CHOOSE i \in 1..Len(s) : s[i] = c /\ \A j \in (i+1)..Len(s) : s[j] # c
    ELSE 0

-----------------------------------------------------------------------------
(* _parse_municipality_codes *)

AltSeparators == {";", "\n", "\t"}

\* for sep in [";", "\n", "\t"]: s = s.replace(sep, ",")
ReplaceSeparators(s) ==
    [i \in 1..Len(s) |-> IF s[i] \in AltSeparators THEN "," ELSE s[i]]

\* s.split(","): the parts between commas, empty parts kept
RECURSIVE SplitComma(_)
SplitComma(s) ==
    IF \E i \in 1..Len(s) : s[i] = ","
    THEN LET i == CHOOSE k \in 1..Len(s) : s[k] = "," /\ \A j \in 1..(k-1) : s[j] # ","
         IN  << SubSeq(s, 1, i - 1) >> \o SplitComma(SubSeq(s, i + 1, Len(s)))
    ELSE << s >>

\* "".join(c for c in part if c.isdigit())
OnlyDigits(part) == SelectSeq(part, IsDigit)

\* the list `codes` before deduplication: the non-empty digit strings of the parts
RECURSIVE DigitCodes(_)
DigitCodes(parts) ==
    IF parts = << >> THEN << >>
    ELSE LET code == OnlyDigits(Head(parts))
         IN  (IF code # << >> THEN << code >> ELSE << >>) \o DigitCodes(Tail(parts))

\* mutant of UniqueCodes: keeps the last occurrence of a repeated code
RECURSIVE UniqueCodesKeepLast(_)
UniqueCodesKeepLast(cs) ==
    IF cs = << >> THEN << >>
    ELSE IF Head(cs) \in Range(Tail(cs))
         THEN UniqueCodesKeepLast(Tail(cs))
         ELSE << Head(cs) >> \o UniqueCodesKeepLast(Tail(cs))

RECURSIVE UniqueFrom(_, _)
UniqueFrom(cs, seen) ==
    IF cs = << >> THEN << >>
    ELSE IF Head(cs) \in seen
         THEN UniqueFrom(Tail(cs), seen)
         ELSE << Head(cs) >> \o UniqueFrom(Tail(cs), seen \cup {Head(cs)})

\* seen = set(); unique_codes = [] ... first occurrence kept
UniqueCodes(cs) == UniqueFrom(cs, {})

\* mutant of ParseMunicipalityCodes: empty tokens are not dropped
ParseKeepingEmptyTokens(s) ==
    IF s = << >> THEN << >>
    ELSE LET parts == SplitComma(ReplaceSeparators(s))
         IN  UniqueCodes([i \in 1..Len(parts) |-> OnlyDigits(parts[i])])

ParseMunicipalityCodes(s) ==
    IF s = << >> THEN << >>
    ELSE UniqueCodes(DigitCodes(SplitComma(ReplaceSeparators(s))))

-----------------------------------------------------------------------------
(* Output path normalisation *)

GPKG == << ".", "g", "p", "k", "g" >>
SHP  == << ".", "s", "h", "p" >>

\* os.path.splitext(p): the extension starts at the last dot of the last path
\* component, unless only dots precede it in that component
SplitExt(p) ==
    LET sepIndex == RFind(p, "/")
        dotIndex == RFind(p, ".")
    IN  IF /\ dotIndex > sepIndex
           /\ \E k \in (sepIndex + 1)..(dotIndex - 1) : p[k] # "."
        THEN [base |-> SubSeq(p, 1, dotIndex - 1), ext |-> SubSeq(p, dotIndex, Len(p))]
        ELSE [base |-> p, ext |-> << >>]

\* mutant of NormalizeExt: only a Shapefile extension is replaced
NormalizeExtShpOnly(ext) ==
    LET e1 == IF ext = << >> THEN GPKG ELSE ext
    IN  IF Lower(e1) = SHP THEN GPKG ELSE e1

\* the three `if` statements on ext
NormalizeExt(ext) ==
    LET e1 == IF ext = << >> THEN GPKG ELSE ext
        e2 == IF Lower(e1) = SHP THEN GPKG ELSE e1
    IN  IF Lower(e2) # GPKG THEN GPKG ELSE e2

\* whether the Shapefile warning is reported
ShpChosen(ext) == ext # << >> /\ Lower(ext) = SHP

NormalizeOutPath(p) == SplitExt(p).base \o NormalizeExt(SplitExt(p).ext)

-----------------------------------------------------------------------------
(* Messages, names and parameters of processAlgorithm *)

NET_TYPE_OPTIONS == << "drive", "all", "walk", "bike", "drive_service" >>

\* net_type_index is reset to 0 when out of range; Python indexes from 0
NetworkType(i) ==
    IF i < 0 \/ i >= Len(NET_TYPE_OPTIONS) THEN NET_TYPE_OPTIONS[1]
    ELSE NET_TYPE_OPTIONS[i + 1]

\* a message: the template and the values formatted into it
Msg(m, a) == [msg |-> m, args |-> a]
NoError == Msg(None, << >>)

\* the text of an exception `e` formatted into a message
Exc == << "exception" >>
StatusArg(st) == << "status", ToString(st) >>

\* reportError for every code whose length is not 6 or 7
LengthWarnings(cs) ==
    {Msg("code_length", << cs[i] >>) : i \in {k \in 1..Len(cs) : Len(cs[k]) \notin {6, 7}}}

\* mutant of LayerName: the code is left out of the layer name
LayerNameWithoutCode(code) == << "osm_segments_" >>

\* f"osm_segments_{mun_code}"
LayerName(code) == << "osm_segments_" >> \o code

\* data["nome"] and data["microrregiao"]["mesorregiao"]["UF"]["sigla"] of the
\* registry's answer for a code
Nome(code) == << "nome:" >> \o code
Uf(code) == << "uf:" >> \o code

\* f"{nome_mun}, {uf_sigla}, Brasil"
PlaceQuery(code) == Nome(code) \o << ", " >> \o Uf(code) \o << ", Brasil" >>

BufferRequested == buffer_m > 0

\* f"OSMnx_{nome_mun}_{uf_sigla}_{network_type}_segments" (+ f"_buf{int(buffer_m)}m")
VLayerName(code) ==
    << "OSMnx_" >> \o Nome(code) \o << "_" >> \o Uf(code)
        \o << "_", network_type, "_segments" >>
        \o (IF BufferRequested THEN << "_buf", ToString(buffer_m), "m" >> ELSE << >>)

\* QgsVectorLayer(f"{out_path}|layername={layer_name}", vlayer_name, "ogr")
VLayer(code) == [path |-> out_path, layername |-> LayerName(code), name |-> VLayerName(code)]

Call(c, code, a) == [call |-> c, code |-> code, arg |-> a]
Outcome(c, i, st, r) == [call |-> c, idx |-> i, status |-> st, res |-> r]

mun_code == codes[idx]

\* raise QgsProcessingException(...): the run ends here, nothing else changes
Raise(e) ==
    /\ pc' = "failed"
    /\ raised' = e

-----------------------------------------------------------------------------
(* Pre-flight: lines 166-278 *)

ReadAndParse ==
    /\ pc = "start"
    /\ codes' = ParseMunicipalityCodes(mun_codes_str)
    /\ network_type' = NetworkType(net_type_index)
    /\ IF codes' = << >>
       THEN /\ Raise(Msg("no_codes", << >>))
            /\ UNCHANGED reported
       ELSE /\ pc' = "normalize"
            /\ reported' = reported \cup LengthWarnings(codes')
            /\ UNCHANGED raised
    /\ UNCHANGED << mun_codes_str, out_path_user, net_type_index, buffer_m, out_path,
                    idx, place_query, geom, edges_crs, created_layers, gpkg, store,
                    project, result, outcome, log >>

NormalizePath ==
    /\ pc = "normalize"
    /\ out_path' = NormalizeOutPath(out_path_user)
    /\ reported' = reported \cup
           (IF ShpChosen(SplitExt(out_path_user).ext)
            THEN {Msg("shp_selected", << SplitExt(out_path_user).base >>)} ELSE {})
    /\ pc' = "import"
    /\ UNCHANGED << mun_codes_str, out_path_user, net_type_index, buffer_m, codes,
                    network_type, idx, place_query, geom, edges_crs, created_layers,
                    gpkg, store, project, raised, result, outcome, log >>

ImportOutcomes == {"ok", "no_osmnx", "no_geopandas"}

ImportLibs ==
    /\ pc = "import"
    /\ \E o \in ImportOutcomes :
          /\ outcome' = Outcome("import", 0, 0, o)
          /\ IF o = "ok"
             THEN /\ pc' = "request"
                  /\ created_layers' = << >>
                  /\ idx' = 1
                  /\ UNCHANGED raised
             ELSE /\ Raise(Msg(o, << >>))
                  /\ UNCHANGED << created_layers, idx >>
    /\ UNCHANGED << mun_codes_str, out_path_user, net_type_index, buffer_m, codes,
                    network_type, out_path, place_query, geom, edges_crs, gpkg, store,
                    project, reported, result, log >>

-----------------------------------------------------------------------------
(* Municipality resolver: lines 281-362 *)

\* what the registry may answer: no answer at all, or a status and a payload
Statuses == {200, 404}
Bodies == {"malformed_json", "list_empty", "list_object_ok", "list_object_bad",
           "object_ok", "object_bad", "scalar"}
Responses ==
    {Outcome("requests.get", 0, 0, "conn_error")}
        \cup {Outcome("requests.get", 0, st, b) : st \in Statuses, b \in Bodies}

\* payloads in which data["nome"] or the nested "sigla" lookup raises
BadShapes == {"list_object_bad", "object_bad", "scalar"}

\* mutant of IBGEError: a non-200 status is not checked
IBGEErrorIgnoringStatus(r, code) ==
    IF r.res = "conn_error" THEN Msg("ibge_connect", << Exc >>)
    ELSE IF r.res = "malformed_json" THEN Msg("ibge_not_json", << >>)
    ELSE IF r.res = "list_empty" THEN Msg("ibge_empty", << code >>)
    ELSE IF r.res \in BadShapes THEN Msg("ibge_shape", << code, Exc >>)
    ELSE NoError

\* mutant of IBGEError: the empty-list message leaves the code out
IBGEErrorEmptyUnnamed(r, code) ==
    IF r.res = "conn_error" THEN Msg("ibge_connect", << Exc >>)
    ELSE IF r.status # 200 THEN Msg("ibge_status", << StatusArg(r.status), code >>)
    ELSE IF r.res = "malformed_json" THEN Msg("ibge_not_json", << >>)
    ELSE IF r.res = "list_empty" THEN Msg("ibge_empty", << >>)
    ELSE IF r.res \in BadShapes THEN Msg("ibge_shape", << code, Exc >>)
    ELSE NoError

\* the exception the lookup raises for response r, or NoError
IBGEError(r, code) ==
    IF r.res = "conn_error" THEN Msg("ibge_connect", << Exc >>)
    ELSE IF r.status # 200 THEN Msg("ibge_status", << StatusArg(r.status), code >>)
    ELSE IF r.res = "malformed_json" THEN Msg("ibge_not_json", << >>)
    ELSE IF r.res = "list_empty" THEN Msg("ibge_empty", << code >>)
    ELSE IF r.res \in BadShapes THEN Msg("ibge_shape", << code, Exc >>)
    ELSE NoError

LookupIBGE ==
    /\ pc = "request"
    /\ log' = Append(log, Call("requests.get", mun_code, mun_code))
    /\ \E r \in Responses :
          /\ outcome' = [r EXCEPT !.idx = idx]
          /\ IF IBGEError(r, mun_code) # NoError
             THEN /\ Raise(IBGEError(r, mun_code))
                  /\ UNCHANGED place_query
             ELSE /\ place_query' = PlaceQuery(mun_code)
                  /\ pc' = "geocode"
                  /\ UNCHANGED raised
    /\ UNCHANGED << mun_codes_str, out_path_user, net_type_index, buffer_m, codes,
                    network_type, out_path, idx, geom, edges_crs, created_layers,
                    gpkg, store, project, reported, result >>

-----------------------------------------------------------------------------
(* Network fetcher: lines 364-433 *)

GeocodeOutcomes == {"ok", "empty", "exception"}

Geocode ==
    /\ pc = "geocode"
    /\ log' = Append(log, Call("geocode_to_gdf", mun_code, place_query))
    /\ \E o \in GeocodeOutcomes :
          /\ outcome' = Outcome("geocode_to_gdf", idx, 0, o)
          /\ IF o = "ok"
             THEN /\ geom' = "unbuffered"
                  /\ pc' = IF BufferRequested THEN "buffer" ELSE "download"
                  /\ UNCHANGED raised
             ELSE /\ Raise(IF o = "exception"
                           THEN Msg("boundary_error", << place_query, Exc >>)
                           ELSE Msg("boundary_empty", << place_query >>))
                  /\ UNCHANGED geom
    /\ UNCHANGED << mun_codes_str, out_path_user, net_type_index, buffer_m, codes,
                    network_type, out_path, idx, place_query, edges_crs,
                    created_layers, gpkg, store, project, reported, result >>

\* project_gdf/buffer/to_crs succeed; they fail and the Web Mercator fallback
\* succeeds; both fail; or reading the buffered geometry fails
BufferOutcomes == {"primary_ok", "fallback_ok", "fallback_failed", "extract_failed"}

\* mutant of BufferedGeom: a failed buffer still replaces the polygon
BufferedGeomAlways(g, o) ==
    IF o = "primary_ok" THEN "buffered_utm" ELSE "buffered_webmercator"

\* geom after the buffer block, from geom before it
BufferedGeom(g, o) ==
    IF o = "primary_ok" THEN "buffered_utm"
    ELSE IF o = "fallback_ok" THEN "buffered_webmercator"
    ELSE g

\* the outer `except Exception` of the buffer block
BufferFailed(o) == o \in {"fallback_failed", "extract_failed"}

Buffer ==
    /\ pc = "buffer"
    /\ log' = Append(log, Call("buffer", mun_code, << ToString(buffer_m) >>))
    /\ \E o \in BufferOutcomes :
          /\ outcome' = Outcome("buffer", idx, 0, o)
          /\ geom' = BufferedGeom(geom, o)
          /\ reported' = reported \cup
                 (IF BufferFailed(o)
                  THEN {Msg("buffer_failed", << place_query, Exc >>)} ELSE {})
    /\ pc' = "download"
    /\ UNCHANGED << mun_codes_str, out_path_user, net_type_index, buffer_m, codes,
                    network_type, out_path, idx, place_query, edges_crs,
                    created_layers, gpkg, store, project, raised, result >>

CallOutcomes == {"ok", "exception"}

Download ==
    /\ pc = "download"
    /\ log' = Append(log, Call("graph_from_polygon", mun_code, << geom, network_type >>))
    /\ \E o \in CallOutcomes :
          /\ outcome' = Outcome("graph_from_polygon", idx, 0, o)
          /\ IF o = "ok"
             THEN pc' = "project" /\ UNCHANGED raised
             ELSE Raise(Msg("download_error", << place_query, Exc >>))
    /\ UNCHANGED << mun_codes_str, out_path_user, net_type_index, buffer_m, codes,
                    network_type, out_path, idx, place_query, geom, edges_crs,
                    created_layers, gpkg, store, project, reported, result >>

ProjectGraph ==
    /\ pc = "project"
    /\ log' = Append(log, Call("project_graph", mun_code, << >>))
    /\ \E o \in CallOutcomes :
          /\ outcome' = Outcome("project_graph", idx, 0, o)
          /\ IF o = "ok"
             THEN pc' = "edges" /\ UNCHANGED raised
             ELSE Raise(Msg("project_error", << place_query, Exc >>))
    /\ UNCHANGED << mun_codes_str, out_path_user, net_type_index, buffer_m, codes,
                    network_type, out_path, idx, place_query, geom, edges_crs,
                    created_layers, gpkg, store, project, reported, result >>

-----------------------------------------------------------------------------
(* Layer writer: lines 435-491 *)

GdfsOutcomes == {"crs", "no_crs", "exception"}

GraphToGdfs ==
    /\ pc = "edges"
    /\ log' = Append(log, Call("graph_to_gdfs", mun_code, << >>))
    /\ \E o \in GdfsOutcomes :
          /\ outcome' = Outcome("graph_to_gdfs", idx, 0, o)
          /\ IF o = "exception"
             THEN /\ Raise(Msg("gdf_error", << place_query, Exc >>))
                  /\ UNCHANGED edges_crs
             ELSE /\ edges_crs' = (o = "crs")
                  /\ pc' = "strip"
                  /\ UNCHANGED raised
    /\ UNCHANGED << mun_codes_str, out_path_user, net_type_index, buffer_m, codes,
                    network_type, out_path, idx, place_query, geom, created_layers,
                    gpkg, store, project, reported, result >>

\* mutant of StrippedCrs: set_crs is not applied
StrippedCrsKept(crs, o) == crs

\* whether edges carry a CRS after the try block around set_crs(None)
StrippedCrs(crs, o) == IF o = "ok" THEN FALSE ELSE crs

StripCRS ==
    /\ pc = "strip"
    /\ log' = Append(log, Call("strip_crs", mun_code, << >>))
    /\ \E o \in CallOutcomes :
          /\ outcome' = Outcome("strip_crs", idx, 0, o)
          /\ edges_crs' = StrippedCrs(edges_crs, o)
          /\ reported' = reported \cup
                 (IF o = "exception" THEN {Msg("crs_strip_failed", << Exc >>)} ELSE {})
    /\ pc' = "write"
    /\ UNCHANGED << mun_codes_str, out_path_user, net_type_index, buffer_m, codes,
                    network_type, out_path, idx, place_query, geom, created_layers,
                    gpkg, store, project, raised, result >>

Layer(n, crs, g) == [name |-> n, crs |-> crs, geom |-> g]

\* edges.to_file(out_path, layer=layer_name, driver="GPKG"): a layer of that
\* name is replaced, the other layers of the package are kept
ToFile(pkg, layer) ==
    Append(SelectSeq(pkg, LAMBDA l : l.name # layer.name), layer)

\* mutant of WriteError: a failed write is not raised
WriteErrorSwallowed(o, layer_name) == NoError

WriteError(o, layer_name) ==
    IF o = "exception" THEN Msg("write_error", << layer_name, Exc >>) ELSE NoError

WriteLayer ==
    /\ pc = "write"
    /\ log' = Append(log, Call("to_file", mun_code, LayerName(mun_code)))
    /\ \E o \in CallOutcomes :
          /\ outcome' = Outcome("to_file", idx, 0, o)
          /\ gpkg' = IF o = "ok"
                     THEN ToFile(gpkg, Layer(LayerName(mun_code), edges_crs, geom))
                     ELSE gpkg
          /\ IF WriteError(o, LayerName(mun_code)) # NoError
             THEN /\ Raise(WriteError(o, LayerName(mun_code)))
                  /\ UNCHANGED created_layers
             ELSE /\ created_layers' = Append(created_layers, LayerName(mun_code))
                  /\ pc' = "load"
                  /\ UNCHANGED raised
    /\ UNCHANGED << mun_codes_str, out_path_user, net_type_index, buffer_m, codes,
                    network_type, out_path, idx, place_query, geom, edges_crs,
                    store, project, reported, result >>

-----------------------------------------------------------------------------
(* Project integrator and return: lines 493-530 *)

LoadOutcomes == {"valid", "invalid"}

\* mutant of LoadLayer: isValid() is not checked
LoadLayerUnchecked ==
    /\ pc = "load"
    /\ log' = Append(log, Call("QgsVectorLayer", mun_code, LayerName(mun_code)))
    /\ \E o \in LoadOutcomes : outcome' = Outcome("QgsVectorLayer", idx, 0, o)
    /\ pc' = "register"
    /\ UNCHANGED << mun_codes_str, out_path_user, net_type_index, buffer_m, codes,
                    network_type, out_path, idx, place_query, geom, edges_crs,
                    created_layers, gpkg, store, project, reported, raised, result >>

LoadLayer ==
    /\ pc = "load"
    /\ log' = Append(log, Call("QgsVectorLayer", mun_code, LayerName(mun_code)))
    /\ \E o \in LoadOutcomes :
          /\ outcome' = Outcome("QgsVectorLayer", idx, 0, o)
          /\ IF o = "valid"
             THEN pc' = "register" /\ UNCHANGED raised
             ELSE Raise(Msg("load_invalid", << LayerName(mun_code) >>))
    /\ UNCHANGED << mun_codes_str, out_path_user, net_type_index, buffer_m, codes,
                    network_type, out_path, idx, place_query, geom, edges_crs,
                    created_layers, gpkg, store, project, reported, result >>

\* both addMapLayer calls, then the next iteration of the for loop
Register ==
    /\ pc = "register"
    /\ log' = log \o << Call("store.addMapLayer", mun_code, LayerName(mun_code)),
                        Call("project.addMapLayer", mun_code, LayerName(mun_code)) >>
    /\ store' = Append(store, VLayer(mun_code))
    /\ project' = Append(project, VLayer(mun_code))
    /\ outcome' = Outcome("addMapLayer", idx, 0, "ok")
    /\ IF idx < Len(codes)
       THEN idx' = idx + 1 /\ pc' = "request"
       ELSE idx' = idx /\ pc' = "return"
    /\ UNCHANGED << mun_codes_str, out_path_user, net_type_index, buffer_m, codes,
                    network_type, out_path, place_query, geom, edges_crs,
                    created_layers, gpkg, reported, raised, result >>

PARAM_OUTPUT == "OUTPUT"

Return ==
    /\ pc = "return"
    /\ result' = {<< PARAM_OUTPUT, out_path >>}
    /\ pc' = "returned"
    /\ UNCHANGED << mun_codes_str, out_path_user, net_type_index, buffer_m, codes,
                    network_type, out_path, idx, place_query, geom, edges_crs,
                    created_layers, gpkg, store, project, reported, raised, outcome,
                    log >>

-----------------------------------------------------------------------------
(* Inputs *)

RECURSIVE SeqsUpTo(_, _)
\* the sequences of at most n elements of S
SeqsUpTo(S, n) ==
    IF n = 0 THEN {<< >>}
    ELSE LET shorter == SeqsUpTo(S, n - 1)
         IN  shorter \cup {Append(q, x) : q \in shorter, x \in S}

RECURSIVE Concat(_)
\* the concatenation of a sequence of sequences
Concat(ss) == IF ss = << >> THEN << >> ELSE Head(ss) \o Concat(Tail(ss))

RECURSIVE JoinComma(_)
\* ",".join(ss)
JoinComma(ss) ==
    IF ss = << >> THEN << >>
    ELSE IF Len(ss) = 1 THEN ss[1]
    ELSE ss[1] \o << "," >> \o JoinComma(Tail(ss))

\* the five separators of the codes field
Separators == {",", ";", "\t", "\n", " "}

\* characters of the enumerated codes strings: digits, separators, a letter
CodeChars == {"1", "2", "a"} \cup Separators

PortoAlegre == << "4", "3", "0", "5", "1", "0", "8" >>
SaoPaulo == << "3", "5", "5", "0", "3", "0", "8" >>

\* "4305108; 4305108, 3550308"
ExampleRepeated ==
    PortoAlegre \o << ";", " " >> \o PortoAlegre \o << ",", " " >> \o SaoPaulo
\* "4305108 3550308"
ExampleSpace == PortoAlegre \o << " " >> \o SaoPaulo
\* "4305108,3550308"
ExampleComma == PortoAlegre \o << "," >> \o SaoPaulo

ParseInputs ==
    SeqsUpTo(CodeChars, MaxLen) \cup {ExampleRepeated, ExampleSpace, ExampleComma}

\* pieces of the enumerated output paths
PathParts == { << "/" >>, << "." >>, << "f" >>,
               << "s", "h", "p" >>, << "S", "H", "P" >>,
               << "g", "p", "k", "g" >>, << "G", "P", "K", "G" >>,
               << "G", "p", "k", "g" >>, << "t", "i", "f" >> }

PathInputs == {Concat(ps) : ps \in SeqsUpTo(PathParts, MaxParts)}

\* "4305108,3550308,12"
ExampleThree == JoinComma(<< PortoAlegre, SaoPaulo, << "1", "2" >> >>)

\* codes fields of a full run: up to MaxCodes codes joined by commas, a field
\* without digits, and the examples
RunCodePool == {PortoAlegre, << "1", "2" >>}
RunCodeStrings ==
    {JoinComma(cs) : cs \in SeqsUpTo(RunCodePool, MaxCodes)}
        \cup {<< "a", ";" >>, ExampleRepeated, ExampleSpace, ExampleThree}

RunPaths == { << "o", ".", "s", "h", "p" >>, << "o", ".", "G", "P", "K", "G" >>, << "o" >> }
RunNetTypes == {2, 7}
RunBuffers == {0, 50}

\* the state on entry of processAlgorithm with the given parameters
Entry(str, path, nt, buf) ==
    /\ mun_codes_str = str
    /\ out_path_user = path
    /\ net_type_index = nt
    /\ buffer_m = buf
    /\ pc = "start"
    /\ codes = << >>
    /\ network_type = None
    /\ out_path = << >>
    /\ idx = 0
    /\ place_query = << >>
    /\ geom = None
    /\ edges_crs = FALSE
    /\ created_layers = << >>
    /\ gpkg = << >>
    /\ store = << >>
    /\ project = << >>
    /\ reported = {}
    /\ raised = NoError
    /\ result = {}
    /\ outcome = Outcome(None, 0, 0, None)
    /\ log = << >>

-----------------------------------------------------------------------------
(* Specifications *)

Init ==
    \E str \in RunCodeStrings, path \in RunPaths, nt \in RunNetTypes, buf \in RunBuffers :
        Entry(str, path, nt, buf)

Next ==
    \/ ReadAndParse
    \/ NormalizePath
    \/ ImportLibs
    \/ LookupIBGE
    \/ Geocode
    \/ Buffer
    \/ Download
    \/ ProjectGraph
    \/ GraphToGdfs
    \/ StripCRS
    \/ WriteLayer
    \/ LoadLayer
    \/ Register
    \/ Return

\* a run of processAlgorithm
Spec == Init /\ [][Next]_vars

\* the parser applied to every enumerated codes field
InitParse == \E str \in ParseInputs : Entry(str, << "o" >>, 0, 0)
NextParse == ReadAndParse
SpecParse == InitParse /\ [][NextParse]_vars

\* the path normalisation applied to every enumerated output path, after the
\* codes field "4305108" was parsed
InitPath ==
    /\ mun_codes_str = PortoAlegre
    /\ out_path_user \in PathInputs
    /\ net_type_index = 0
    /\ buffer_m = 0
    /\ pc = "normalize"
    /\ codes = ParseMunicipalityCodes(PortoAlegre)
    /\ network_type = NetworkType(0)
    /\ out_path = << >>
    /\ idx = 0
    /\ place_query = << >>
    /\ geom = None
    /\ edges_crs = FALSE
    /\ created_layers = << >>
    /\ gpkg = << >>
    /\ store = << >>
    /\ project = << >>
    /\ reported = {}
    /\ raised = NoError
    /\ result = {}
    /\ outcome = Outcome(None, 0, 0, None)
    /\ log = << >>
NextPath == NormalizePath
SpecPath == InitPath /\ [][NextPath]_vars

-----------------------------------------------------------------------------
(* Claims about _parse_municipality_codes, under SpecParse *)

Parsed == pc # "start"

\* digit tokens joined by single separators
IsJoined(s) ==
    /\ s # << >>
    /\ \A i \in 1..Len(s) : s[i] \in Digits \cup Separators
    /\ IsDigit(s[1]) /\ IsDigit(s[Len(s)])
    /\ \A i \in 1..(Len(s) - 1) : ~(s[i] \in Separators /\ s[i + 1] \in Separators)

\* C1: the five separators are equivalent: in a codes field made of digit
\* tokens joined by separators, putting any of the five separators in place
\* of any separator leaves the parsed list unchanged, and "4305108 3550308"
\* parses to the two codes of "4305108,3550308".
C1_SeparatorsEquivalent ==
    Parsed /\ IsJoined(mun_codes_str) =>
        /\ \A i \in 1..Len(mun_codes_str), sep \in Separators :
              mun_codes_str[i] \in Separators =>
                  ParseMunicipalityCodes([mun_codes_str EXCEPT ![i] = sep]) = codes
        /\ mun_codes_str = ExampleSpace => codes = << PortoAlegre, SaoPaulo >>

\* the digit strings of the comma-class-separated tokens of the input, in order
InputTokens == DigitCodes(SplitComma(ReplaceSeparators(mun_codes_str)))

FirstOccurrence(c) == CHOOSE k \in 1..Len(InputTokens) :
    InputTokens[k] = c /\ \A j \in 1..(k - 1) : InputTokens[j] # c

\* C2: the parsed list holds non-empty digit-only strings, none twice, in the
\* order of their first occurrence in the input; the empty input gives the
\* empty list and "4305108; 4305108, 3550308" gives ["4305108", "3550308"].
C2_ParsedCodes ==
    Parsed =>
        /\ \A i \in 1..Len(codes) :
              codes[i] # << >> /\ \A j \in 1..Len(codes[i]) : IsDigit(codes[i][j])
        /\ \A i, j \in 1..Len(codes) : i # j => codes[i] # codes[j]
        /\ Range(codes) = Range(InputTokens)
        /\ \A i, j \in 1..Len(codes) :
              i < j => FirstOccurrence(codes[i]) < FirstOccurrence(codes[j])
        /\ mun_codes_str = << >> => codes = << >>
        /\ mun_codes_str = ExampleRepeated => codes = << PortoAlegre, SaoPaulo >>

\* a repeated code was dropped from the example
C2_Witness ==
    /\ Parsed
    /\ mun_codes_str = ExampleRepeated
    /\ Len(codes) = 2
    /\ Len(InputTokens) = 3

-----------------------------------------------------------------------------
(* Claims about the output path, under SpecPath *)

Normalized == pc = "import"

\* C3 as stated: the normalised path ends in ".gpkg" and nothing is raised.
C3_EndsInGpkg ==
    Normalized => EndsWith(out_path, GPKG) /\ raised = NoError

\* C3, amended: the normalised path ends in ".gpkg" up to letter case: it ends
\* in lower-case ".gpkg", or it is the user's path unchanged and that path
\* ends in ".gpkg" in some letter case; nothing is raised.
C3_EndsInGpkgAnyCase ==
    Normalized =>
        /\ \/ EndsWith(out_path, GPKG)
           \/ out_path = out_path_user /\ EndsWith(Lower(out_path), GPKG)
        /\ raised = NoError

\* an upper-case ".GPKG" chosen by the user was kept
C3_Witness ==
    /\ Normalized
    /\ out_path_user = << "f", ".", "G", "P", "K", "G" >>
    /\ out_path = out_path_user

-----------------------------------------------------------------------------
(* Claims about a run of processAlgorithm, under Spec *)

Done == pc \in {"failed", "returned"}

\* C4: a run that returns has written exactly one layer per code, the i-th
\* named osm_segments_<code_i>, and returns {OUTPUT: out_path} with out_path
\* the normalised output path.
C4_LayersPerCode ==
    pc = "returned" =>
        /\ Len(gpkg) = Len(codes)
        /\ \A i \in 1..Len(codes) : gpkg[i].name = << "osm_segments_" >> \o codes[i]
        /\ \A i, j \in 1..Len(codes) : i # j => codes[i] # codes[j]
        /\ result = {<< "OUTPUT", out_path >>}
        /\ out_path = NormalizeOutPath(out_path_user)

\* a run over three codes returned
C4_Witness ==
    /\ pc = "returned"
    /\ Len(codes) = 3
    /\ Len(gpkg) = 3

\* the latest external call ended in a way the code treats as fatal
FatalOutcome ==
    \/ outcome.call = "import" /\ outcome.res # "ok"
    \/ outcome.call = "requests.get" /\ outcome.res = "conn_error"
    \/ outcome.call = "requests.get" /\ outcome.status # 200
    \/ outcome.call = "requests.get"
          /\ outcome.res \in {"malformed_json", "list_empty", "list_object_bad",
                              "object_bad", "scalar"}
    \/ outcome.call = "geocode_to_gdf" /\ outcome.res # "ok"
    \/ outcome.call \in {"graph_from_polygon", "project_graph", "graph_to_gdfs", "to_file"}
          /\ outcome.res = "exception"
    \/ outcome.call = "QgsVectorLayer" /\ outcome.res = "invalid"

\* the number of layers in the package when the run failed at the k-th code
WrittenAtFailure == IF outcome.call = "QgsVectorLayer" THEN outcome.idx ELSE outcome.idx - 1

C5_HaltedState ==
    FatalOutcome =>
        /\ pc = "failed"
        /\ raised # NoError
        /\ result = {}
        /\ outcome.call # "import" =>
              /\ log[Len(log)].call = outcome.call
              /\ log[Len(log)].code = codes[outcome.idx]
              /\ \A n \in 1..Len(log) : \E i \in 1..outcome.idx : log[n].code = codes[i]
              /\ Len(gpkg) = WrittenAtFailure
              /\ \A i \in 1..Len(gpkg) : gpkg[i].name = << "osm_segments_" >> \o codes[i]
              /\ Len(project) = outcome.idx - 1 /\ Len(store) = outcome.idx - 1

\* a step never removes or alters a layer already in the package, and a
\* failed run takes no further step
C5_LayersKept ==
    /\ Len(gpkg') >= Len(gpkg)
    /\ SubSeq(gpkg', 1, Len(gpkg)) = gpkg
    /\ pc = "failed" => UNCHANGED vars

\* C5: a fatal failure at any stage for the k-th code (a non-200 registry
\* status among them) ends the run at once: the failing call is the last call
\* made, no call was made and no layer written for a later code, and the
\* layers of the earlier codes stay in the package as written.
C5_FatalHaltsRun == [](C5_HaltedState) /\ [][C5_LayersKept]_vars

\* the registry answered 404 for the second of three codes
C5_Witness ==
    /\ pc = "failed"
    /\ outcome.call = "requests.get"
    /\ outcome.status = 404
    /\ outcome.idx = 2
    /\ Len(codes) = 3
    /\ Len(gpkg) = 1

BufferWarning(code) == Msg("buffer_failed", << PlaceQuery(code), Exc >>)

\* C6 as stated: after any failure in the buffer computation the run goes on
\* to the download with the un-buffered polygon and a warning is reported.
C6_AnyBufferFailureFallsBack ==
    outcome.call = "buffer" /\ outcome.res # "primary_ok" =>
        /\ pc = "download"
        /\ raised = NoError
        /\ geom = "unbuffered"
        /\ BufferWarning(codes[outcome.idx]) \in reported

\* C6, amended: when the metric-projection attempt and its Web Mercator
\* fallback both fail (or the buffered geometry cannot be read), the run goes
\* on to the download with the un-buffered polygon and a warning is reported,
\* and every download and layer of a code with that warning uses the
\* un-buffered polygon; when only the first attempt fails, the polygon
\* buffered in Web Mercator is used and no warning is reported.
C6_BufferFailureFallsBack ==
    /\ outcome.call = "buffer" /\ outcome.res \in {"fallback_failed", "extract_failed"} =>
          /\ pc = "download"
          /\ raised = NoError
          /\ geom = "unbuffered"
          /\ BufferWarning(codes[outcome.idx]) \in reported
    /\ outcome.call = "buffer" /\ outcome.res = "fallback_ok" =>
          /\ pc = "download"
          /\ geom = "buffered_webmercator"
          /\ BufferWarning(codes[outcome.idx]) \notin reported
    /\ \A n \in 1..Len(log) :
          log[n].call = "graph_from_polygon" /\ BufferWarning(log[n].code) \in reported =>
              log[n].arg[1] = "unbuffered"
    /\ \A i \in 1..Len(gpkg), k \in 1..Len(codes) :
          /\ gpkg[i].name = << "osm_segments_" >> \o codes[k]
          /\ BufferWarning(codes[k]) \in reported
          => gpkg[i].geom = "unbuffered"

\* a layer was written from the un-buffered polygon after a failed buffer
C6_Witness ==
    /\ BufferRequested
    /\ Len(gpkg) >= 1
    /\ gpkg[1].geom = "unbuffered"
    /\ BufferWarning(codes[1]) \in reported

\* C7 as stated: when the run is over, the package holds as many layers of
\* this run as codes were registered.
C7_LayersEqualRegistered ==
    Done => Len(gpkg) = Len(project) /\ Len(project) = Len(store)

\* C7, amended: when the run is over, the number of layers written equals the
\* number of codes registered, except that it is one more when the run
\* aborted because the layer just written could not be loaded.
C7_LayersEqualRegisteredOrOneMore ==
    Done =>
        /\ Len(project) = Len(store)
        /\ Len(gpkg) = Len(project) + (IF raised.msg = "load_invalid" THEN 1 ELSE 0)

\* the second layer was written and then failed to load
C7_Witness ==
    /\ pc = "failed"
    /\ raised.msg = "load_invalid"
    /\ Len(gpkg) = 2
    /\ Len(project) = 1

\* C8: a codes field without any digit makes the run raise 'at least one code
\* required' with no external call made, nothing written and nothing registered.
C8_NoCodesNoNetwork ==
    pc # "start" /\ (\A i \in 1..Len(mun_codes_str) : ~IsDigit(mun_codes_str[i])) =>
        /\ pc = "failed"
        /\ raised = Msg("no_codes", << >>)
        /\ outcome.call = None
        /\ log = << >>
        /\ gpkg = << >> /\ store = << >> /\ project = << >>

\* the codes field "a;" was refused
C8_Witness ==
    /\ pc = "failed"
    /\ mun_codes_str = << "a", ";" >>
    /\ raised.msg = "no_codes"

NamesCode(e, code) == \E i \in 1..Len(e.args) : e.args[i] = code

\* the registry answered, and the answer is one the lookup refuses
RegistryError ==
    /\ outcome.call = "requests.get"
    /\ outcome.res # "conn_error"
    /\ \/ outcome.status # 200
       \/ outcome.res \in {"malformed_json", "list_empty", "list_object_bad",
                           "object_bad", "scalar"}

\* C9 as stated: every registry error aborts the run with a message naming
\* the code.
C9_RegistryErrorNamesCode ==
    RegistryError => pc = "failed" /\ NamesCode(raised, codes[outcome.idx])

\* C9, amended: every registry error aborts the run; the message names the
\* code for a bad status, an unexpected shape and an empty list, and does not
\* name it for a malformed JSON payload of a 200 response.
C9_RegistryErrorNamesCodeButJson ==
    RegistryError =>
        /\ pc = "failed"
        /\ raised # NoError
        /\ NamesCode(raised, codes[outcome.idx])
              <=> ~(outcome.status = 200 /\ outcome.res = "malformed_json")

\* the registry answered 200 with an empty list for the second code
C9_Witness ==
    /\ pc = "failed"
    /\ outcome.call = "requests.get"
    /\ outcome.status = 200
    /\ outcome.res = "list_empty"
    /\ outcome.idx = 2
    /\ raised.args = << codes[2] >>

CrsWarning == Msg("crs_strip_failed", << Exc >>)

\* C10 as stated: the edge table handed to the write carries no CRS, and no
\* written layer carries one.
C10_WrittenWithoutCrs ==
    /\ pc = "write" => ~edges_crs
    /\ \A i \in 1..Len(gpkg) : ~gpkg[i].crs

\* C10, amended: the edge table handed to the write carries no CRS unless the
\* CRS-stripping step raised, in which case a warning was reported and the
\* table is written with its CRS.
C10_WrittenWithoutCrsUnlessStripRaised ==
    /\ pc = "write" =>
          /\ outcome.call = "strip_crs"
          /\ outcome.res = "ok" => ~edges_crs
          /\ edges_crs => outcome.res = "exception" /\ CrsWarning \in reported
    /\ \A i \in 1..Len(gpkg) : gpkg[i].crs => CrsWarning \in reported

\* a layer was written after its CRS was stripped
C10_Witness ==
    /\ pc = "load"
    /\ outcome.call = "to_file"
    /\ CrsWarning \notin reported
    /\ ~gpkg[Len(gpkg)].crs
    /\ \E n \in 1..Len(log) : log[n].call = "strip_crs" /\ log[n].code = codes[idx]

-----------------------------------------------------------------------------
(* Claim about the order of the stages, under Spec *)

\* the calls of one iteration in the order of the source; the CRS-stripping
\* step sits between building the edge table and writing it
StageOrder ==
    << "requests.get", "geocode_to_gdf" >>
        \o (IF BufferRequested THEN << "buffer" >> ELSE << >>)
        \o << "graph_from_polygon", "project_graph", "graph_to_gdfs", "strip_crs",
              "to_file", "QgsVectorLayer", "store.addMapLayer", "project.addMapLayer" >>

\* the calls made for a code, in the order they were made
CallsFor(code) ==
    LET es == SelectSeq(log, LAMBDA e : e.code = code)
    IN  [n \in 1..Len(es) |-> es[n].call]

IsPrefix(p, q) == Len(p) <= Len(q) /\ SubSeq(q, 1, Len(p)) = p

CodeIndex(code) == CHOOSE k \in 1..Len(codes) : codes[k] = code

C11_OrderedState ==
    /\ \A n \in 1..Len(log) : \E k \in 1..Len(codes) : log[n].code = codes[k]
    /\ \A k \in 1..Len(codes) : IsPrefix(CallsFor(codes[k]), StageOrder)
    /\ \A n \in 1..(Len(log) - 1) :
          log[n].code # log[n + 1].code =>
              /\ log[n].call = "project.addMapLayer"
              /\ log[n + 1].call = "requests.get"
              /\ CodeIndex(log[n + 1].code) = CodeIndex(log[n].code) + 1
    /\ Len(log) > 0 => log[1].code = codes[1]
    /\ Len(store) = Len(project)
    /\ \A i \in 1..Len(project) :
          /\ project[i] = VLayer(codes[i])
          /\ store[i] = VLayer(codes[i])
          /\ gpkg[i].name = << "osm_segments_" >> \o codes[i]
          /\ CallsFor(codes[i]) = StageOrder

\* a layer is registered only in the step after its load was found valid
C11_RegisterStep ==
    project' # project \/ store' # store =>
        /\ outcome.call = "QgsVectorLayer" /\ outcome.res = "valid"
        /\ outcome.idx = idx
        /\ log[Len(log)].call = "QgsVectorLayer" /\ log[Len(log)].code = codes[idx]
        /\ \E i \in 1..Len(gpkg) : gpkg[i].name = << "osm_segments_" >> \o codes[idx]
        /\ project' = Append(project, VLayer(codes[idx]))
        /\ store' = Append(store, VLayer(codes[idx]))

\* C11: for every code the calls are made in the fixed order resolve, fetch
\* boundary, (buffer when requested), download, reproject, build edge table,
\* write, load, register, none repeated; a layer is registered in the layer
\* store and the project only after it was written and its load was valid;
\* and the first call for a code follows the registration of the code before.
C11_StagesInOrder == [](C11_OrderedState) /\ [][C11_RegisterStep]_vars

\* the third code is being resolved after two codes ran through every stage,
\* buffer included
C11_Witness ==
    /\ BufferRequested
    /\ pc = "geocode"
    /\ idx = 3
    /\ Len(project) = 2
    /\ CallsFor(codes[1]) = StageOrder
    /\ CallsFor(codes[3]) = << "requests.get" >>

=============================================================================
